---- MODULE Spec2Model ----
(***************************************************************************)
(* Model of the VM deployment orchestrator of IstioAzureSetup:             *)
(*   internal/services/vm.go      VMService.DeployVM and its helpers       *)
(*   internal/services/azure.go   AzureService (CloudProvisioner)          *)
(*   internal/api/handlers.go     IstioService (MeshRegistrar), 361-682    *)
(*   internal/api/handlers.go     Handler.DeployVM (HTTP entry point)      *)
(*                                                                         *)
(* Every HTTP request is served on its own goroutine, so a Deploy run is a *)
(* sequential process with a program counter; the variables are functions  *)
(* of the run.  Time is counted per run in units of the readiness ticker   *)
(* (30 seconds).  Collaborator calls return at once on that clock; the     *)
(* clock advances only in the readiness select and in time.Sleep.  A call  *)
(* that takes a context fails when that context is already expired.        *)
(***************************************************************************)
EXTENDS Integers, Sequences, FiniteSets, TLC

VARIABLES
    pc,        \* position of each run in Handler.DeployVM / VMService.DeployVM
    req,       \* the VMDeploymentRequest of each run (the code writes to it)
    status,    \* the VMDeploymentStatus of each run
    now,       \* time elapsed since the run started, in ticker units
    deadline,  \* expiry time of the run's deployment context (vm.go:94)
    readyCtx,  \* expiry time of waitForVMReady's context (vm.go:313)
    tick,      \* time at which the readiness ticker fires next (vm.go:316)
    taskIdx,   \* index of the post-boot task the range loop is at
    calls,     \* creating and deleting collaborator calls of each run, in order
    ret,       \* the err value of DeployVM's return statement ("none" before)
    resp,      \* the HTTP response written by the handler (code 0 before)
    cloud,     \* the resources that exist in Azure and in the cluster
    taskLog,   \* the executePostBootTask invocations of each run, in order
    polled,    \* the last answer of Handler.GetVMDeploymentStatus (code 0 before)
    cleanups,  \* number of Handler.CleanupDeployment requests served
    cleanupPre,    \* the resources that existed when the last of them began
    cleanupCalls,  \* the collaborator calls of the last of them, in order
    cleanupRet     \* the error the last of them returned ("none" before)

apiVars == <<polled, cleanups, cleanupPre, cleanupCalls, cleanupRet>>

vars == <<pc, req, status, now, deadline, readyCtx, tick, taskIdx, calls, ret, resp,
          cloud, taskLog, apiVars>>

----------------------------------------------------------------------------
(* Bounds of the model *)

MaxTimeoutMinutes == 2
MaxTasks == 1
MaxCleanups == 2
MaxTaskList == 2

----------------------------------------------------------------------------
(* Program constants, in ticker units of 30 seconds *)

UnitsPerMinute == 2
DefaultTimeoutMinutes == 30
ReadyTimeout == 20
TickerInterval == 1
DefaultWaitDuration == 2
SecondsPerUnit == 30
DefaultTaskTimeout == 10

Runs == {"r1", "r2"}
PowerStates == {"VM running", "VM stopped", "Unknown"}
Nil == "nil"

Min(a, b) == IF a <= b THEN a ELSE b
Max(a, b) == IF a >= b THEN a ELSE b

----------------------------------------------------------------------------
(* Requests *)

\* the Labels map of MeshIntegration (vm.go:37); nil = TRUE is the nil map,
\* "" an absent key
NilLabels == [nil |-> TRUE, app |-> "", version |-> ""]

\* MeshIntegration (vm.go:34-41); present = FALSE is the nil pointer
NilMesh ==
    [present |-> FALSE, enabled |-> FALSE, namespace |-> "", labels |-> NilLabels,
     cwe |-> FALSE, cse |-> FALSE]

MeshChoices ==
    {NilMesh,
     [present |-> TRUE, enabled |-> FALSE, namespace |-> "", labels |-> NilLabels,
      cwe |-> TRUE, cse |-> TRUE],
     [present |-> TRUE, enabled |-> TRUE, namespace |-> "prod",
      labels |-> [nil |-> FALSE, app |-> "web", version |-> ""],
      cwe |-> TRUE, cse |-> TRUE]}
    \cup
    {[present |-> TRUE, enabled |-> TRUE, namespace |-> "", labels |-> NilLabels,
      cwe |-> w, cse |-> s] : w \in BOOLEAN, s \in BOOLEAN}

\* istio.namespace of the configuration (config.go:41), the namespace the
\* IstioService uses for an empty one (handlers.go:480-482, 509-511, 543-545)
DefaultNamespace == "istio-system"

Namespace(ns) == IF ns = "" THEN DefaultNamespace ELSE ns

\* time.ParseDuration on the duration strings the model uses (vm.go:357);
\* -1 stands for a parse error
ParseDuration(s) ==
    CASE s = "30s" -> 1
      [] s = "1m"  -> 2
      [] s = "90s" -> 3
      [] s = "2m"  -> 4
      [] OTHER     -> -1

\* PostBootTask (vm.go:44-52); duration = Nil is an absent "duration" parameter
TaskPool ==
    {[name |-> "w", type |-> "wait", timeoutSeconds |-> 0, retryCount |-> 0, duration |-> "90s"],
     [name |-> "d", type |-> "wait", timeoutSeconds |-> 30, retryCount |-> 0, duration |-> Nil],
     [name |-> "v", type |-> "validate", timeoutSeconds |-> 60, retryCount |-> 0, duration |-> Nil],
     [name |-> "s", type |-> "script", timeoutSeconds |-> 30, retryCount |-> 2, duration |-> Nil],
     [name |-> "x", type |-> "reboot", timeoutSeconds |-> 0, retryCount |-> 0, duration |-> Nil]}

RECURSIVE SeqsUpTo(_, _)
SeqsUpTo(S, n) ==
    IF n = 0 THEN {<<>>}
    ELSE LET shorter == SeqsUpTo(S, n - 1)
         IN shorter \cup {Append(q, t) : q \in {p \in shorter : Len(p) = n - 1}, t \in S}

\* VMDeploymentRequest (vm.go:24-31) with the VMRequest fields the run uses
Requests(names, taskLists) ==
    [name : names,
     sshPublicKey : {"ssh-rsa"},
     cloudInitData : {""},
     serviceName : {"", "svc"},
     mesh : MeshChoices,
     tasks : taskLists,
     autoCleanup : BOOLEAN,
     timeoutMinutes : 0..MaxTimeoutMinutes]

\* the requests of the main specification; a request that leaves the timeout
\* to the default carries at most one task, and the service name is left out
\* only where it is read (vm.go:160)
ValidRequests(names) ==
    {q \in Requests(names, SeqsUpTo(TaskPool, MaxTasks)) :
        /\ q.timeoutMinutes = 0 => Len(q.tasks) <= 1
        /\ q.serviceName = "" => (q.mesh.present /\ q.mesh.enabled /\ q.mesh.cse)}

NoRequest ==
    [name |-> "", sshPublicKey |-> "", cloudInitData |-> "", serviceName |-> "", mesh |-> NilMesh,
     tasks |-> <<>>, autoCleanup |-> FALSE, timeoutMinutes |-> 0]

\* nothing deployed: no VM in the resource group, no WorkloadEntry and no
\* ServiceEntry (name and namespace) in the cluster
NoResources == [vm |-> {}, we |-> {}, se |-> {}]

\* the nil *VMInfo
NoVM == [Name |-> "", Status |-> "", PrivateIP |-> ""]

\* VMDeploymentStatus before DeployVM builds it
NoStatus ==
    [Status |-> "", CurrentTask |-> "", CompletedTasks |-> <<>>, Error |-> "",
     CreatedResources |-> <<>>, VM |-> NoVM, MeshFiles |-> FALSE]

\* the mesh block entered for every request that carries a mesh_integration
\* object
MeshEnabled_presentOnly(r) == req[r].mesh.present

\* vm.go:133,187: request.MeshIntegration != nil && request.MeshIntegration.Enabled
MeshEnabled(r) == req[r].mesh.present /\ req[r].mesh.enabled

CtxExpired(r) == now[r] >= deadline[r]

\* no status request answered yet
NoPoll ==
    [name |-> "", code |-> 0, Status |-> "", CompletedTasks |-> <<>>, Error |-> "",
     CreatedResources |-> <<>>]

\* Requests that miss a field tagged binding:"required" (azure.go:32,39)
InvalidRequests(names) ==
    {[NoRequest EXCEPT !.sshPublicKey = "ssh-rsa"]}
    \cup {[NoRequest EXCEPT !.name = n] : n \in names}

\* c.ShouldBindJSON (handlers.go:62): the required fields are present
BindOK(request) == request.name # "" /\ request.sshPublicKey # ""

\* vm.go:89-92
DeployTimeout(request) ==
    IF request.timeoutMinutes > 0
    THEN request.timeoutMinutes * UnitsPerMinute
    ELSE DefaultTimeoutMinutes * UnitsPerMinute

\* A collaborator call as the run issued it; expired tells whether the
\* context handed to the call was already past its deadline
Call(op, target, expired, ok) ==
    [op |-> op, target |-> target, expired |-> expired, ok |-> ok]

Goto(r, label) == pc' = [pc EXCEPT ![r] = label]

\* return status, err (the status is the run's record, returned by pointer)
Return(r, err) ==
    /\ ret' = [ret EXCEPT ![r] = err]
    /\ Goto(r, "returned")

\* first stage after the mesh block, vm.go:173
AfterMesh(r) == IF Len(req[r].tasks) > 0 THEN "run_task" ELSE "final_validation"

----------------------------------------------------------------------------
(* Handler.DeployVM, handlers.go:60-75 *)

\* handlers.go:61-67: bind the JSON body, reject with 400 or call the service
HandlerBind(r) ==
    /\ pc[r] = "handler"
    /\ IF BindOK(req[r])
       THEN /\ Goto(r, "deploy")
            /\ resp' = resp
       ELSE /\ Goto(r, "done")
            /\ resp' = [resp EXCEPT ![r] = [code |-> 400, body |-> "error"]]
    /\ UNCHANGED <<req, status, now, deadline, readyCtx, tick, taskIdx, calls, ret, cloud, taskLog, apiVars>>

\* HandlerRespond that sends the status record with the error response
HandlerRespond_withStatus(r) ==
    /\ pc[r] = "returned"
    /\ resp' = [resp EXCEPT ![r] =
                  IF ret[r] # Nil
                  THEN [code |-> 500, body |-> "status"]
                  ELSE [code |-> 202, body |-> "status"]]
    /\ Goto(r, "done")
    /\ UNCHANGED <<req, status, now, deadline, readyCtx, tick, taskIdx, calls, ret, cloud, taskLog, apiVars>>

\* handlers.go:68-74: 500 with the error text, or 202 with the status
HandlerRespond(r) ==
    /\ pc[r] = "returned"
    /\ resp' = [resp EXCEPT ![r] =
                  IF ret[r] # Nil
                  THEN [code |-> 500, body |-> "error"]
                  ELSE [code |-> 202, body |-> "status"]]
    /\ Goto(r, "done")
    /\ UNCHANGED <<req, status, now, deadline, readyCtx, tick, taskIdx, calls, ret, cloud, taskLog, apiVars>>

----------------------------------------------------------------------------
(* VMService.DeployVM, vm.go:77-201 *)

\* vm.go:78-95: the status record and the deployment context
DeployStart(r) ==
    /\ pc[r] = "deploy"
    /\ status' = [status EXCEPT ![r] =
                    [NoStatus EXCEPT !.Status = "initializing",
                                     !.CurrentTask = "preparing_deployment"]]
    /\ deadline' = [deadline EXCEPT ![r] = now[r] + DeployTimeout(req[r])]
    /\ Goto(r, "gen_cloud_init")
    /\ UNCHANGED <<req, now, readyCtx, tick, taskIdx, calls, ret, resp, cloud, taskLog, apiVars>>

\* vm.go:97-106: step 1, generateCloudInitData; the result is written into
\* the caller's request
GenerateCloudInit(r) ==
    /\ pc[r] = "gen_cloud_init"
    /\ \E ok \in BOOLEAN :
         IF ok
         THEN /\ req' = [req EXCEPT ![r].cloudInitData =
                           IF MeshEnabled(r) THEN "base64:mesh" ELSE "base64:base"]
              /\ status' = [status EXCEPT
                              ![r].CurrentTask = "generating_cloud_init",
                              ![r].CompletedTasks = Append(@, "cloud_init_generated")]
              /\ Goto(r, "create_vm")
              /\ ret' = ret
         ELSE /\ req' = req
              /\ status' = [status EXCEPT
                              ![r].CurrentTask = "generating_cloud_init",
                              ![r].Status = "failed",
                              ![r].Error = "failed to generate cloud-init data"]
              /\ Return(r, "marshal error")
    /\ UNCHANGED <<now, deadline, readyCtx, tick, taskIdx, calls, resp, cloud, taskLog, apiVars>>

\* the VMInfo GetVM builds at the end of CreateVM (azure.go:157,185-190)
VMInfo(name, power) == [Name |-> name, Status |-> power, PrivateIP |-> "10.0.0.4"]

\* CreateVM with a failed Create handled like a later fatal failure (cleanup
\* when auto-cleanup is set)
CreateVM_cleanupOnError(r) ==
    /\ pc[r] = "create_vm"
    /\ \E ok \in BOOLEAN, power \in PowerStates, made \in BOOLEAN :
         /\ ok => ~CtxExpired(r)
         /\ ok => made
         /\ CtxExpired(r) => ~made
         /\ calls' = [calls EXCEPT ![r] =
                        Append(@, Call("CreateVM", req[r].name, CtxExpired(r), ok))]
         /\ cloud' = IF made THEN [cloud EXCEPT !.vm = @ \cup {req[r].name}] ELSE cloud
         /\ IF ok
            THEN /\ status' = [status EXCEPT
                                 ![r].CurrentTask = "creating_vm",
                                 ![r].VM = VMInfo(req[r].name, power),
                                 ![r].CreatedResources = Append(@, "vm:" \o req[r].name),
                                 ![r].CompletedTasks = Append(@, "vm_created")]
                 /\ Goto(r, "wait_ready")
                 /\ ret' = ret
            ELSE /\ power = "Unknown"
                 /\ status' = [status EXCEPT
                                 ![r].CurrentTask = "creating_vm",
                                 ![r].Status = "failed",
                                 ![r].Error = "failed to create VM"]
                 /\ IF req[r].autoCleanup
                    THEN /\ ret' = [ret EXCEPT ![r] = "create error"]
                         /\ Goto(r, "cleanup")
                    ELSE Return(r, "create error")
    /\ UNCHANGED <<req, now, deadline, readyCtx, tick, taskIdx, resp, taskLog, apiVars>>

\* CreateVM with the manifest entry left out on success
CreateVM_noManifest(r) ==
    /\ pc[r] = "create_vm"
    /\ \E ok \in BOOLEAN, power \in PowerStates, made \in BOOLEAN :
         /\ ok => ~CtxExpired(r)
         /\ ok => made
         /\ CtxExpired(r) => ~made
         /\ calls' = [calls EXCEPT ![r] =
                        Append(@, Call("CreateVM", req[r].name, CtxExpired(r), ok))]
         /\ cloud' = IF made THEN [cloud EXCEPT !.vm = @ \cup {req[r].name}] ELSE cloud
         /\ IF ok
            THEN /\ status' = [status EXCEPT
                                 ![r].CurrentTask = "creating_vm",
                                 ![r].VM = VMInfo(req[r].name, power),
                                 ![r].CompletedTasks = Append(@, "vm_created")]
                 /\ Goto(r, "wait_ready")
                 /\ ret' = ret
            ELSE /\ power = "Unknown"
                 /\ status' = [status EXCEPT
                                 ![r].CurrentTask = "creating_vm",
                                 ![r].Status = "failed",
                                 ![r].Error = "failed to create VM"]
                 /\ Return(r, "create error")
    /\ UNCHANGED <<req, now, deadline, readyCtx, tick, taskIdx, resp, taskLog, apiVars>>

\* CreateVM that also records the network interface made for the instance
CreateVM_withNic(r) ==
    /\ pc[r] = "create_vm"
    /\ \E ok \in BOOLEAN, power \in PowerStates, made \in BOOLEAN :
         /\ ok => ~CtxExpired(r)
         /\ ok => made
         /\ CtxExpired(r) => ~made
         /\ calls' = [calls EXCEPT ![r] =
                        Append(@, Call("CreateVM", req[r].name, CtxExpired(r), ok))]
         /\ cloud' = IF made THEN [cloud EXCEPT !.vm = @ \cup {req[r].name}] ELSE cloud
         /\ IF ok
            THEN /\ status' = [status EXCEPT
                                 ![r].CurrentTask = "creating_vm",
                                 ![r].VM = VMInfo(req[r].name, power),
                                 ![r].CreatedResources =
                                     Append(Append(@, "vm:" \o req[r].name),
                                            "nic:" \o req[r].name \o "-nic"),
                                 ![r].CompletedTasks = Append(@, "vm_created")]
                 /\ Goto(r, "wait_ready")
                 /\ ret' = ret
            ELSE /\ power = "Unknown"
                 /\ status' = [status EXCEPT
                                 ![r].CurrentTask = "creating_vm",
                                 ![r].Status = "failed",
                                 ![r].Error = "failed to create VM"]
                 /\ Return(r, "create error")
    /\ UNCHANGED <<req, now, deadline, readyCtx, tick, taskIdx, resp, taskLog, apiVars>>

\* vm.go:108-118: step 2, azureService.CreateVM; on success the manifest
\* entry is appended before the completed list
CreateVM(r) ==
    /\ pc[r] = "create_vm"
    /\ \E ok \in BOOLEAN, power \in PowerStates, made \in BOOLEAN :
         /\ ok => ~CtxExpired(r)
         /\ ok => made
         /\ CtxExpired(r) => ~made
         /\ calls' = [calls EXCEPT ![r] =
                        Append(@, Call("CreateVM", req[r].name, CtxExpired(r), ok))]
         /\ cloud' = IF made THEN [cloud EXCEPT !.vm = @ \cup {req[r].name}] ELSE cloud
         /\ IF ok
            THEN /\ status' = [status EXCEPT
                                 ![r].CurrentTask = "creating_vm",
                                 ![r].VM = VMInfo(req[r].name, power),
                                 ![r].CreatedResources = Append(@, "vm:" \o req[r].name),
                                 ![r].CompletedTasks = Append(@, "vm_created")]
                 /\ Goto(r, "wait_ready")
                 /\ ret' = ret
            ELSE /\ power = "Unknown"
                 /\ status' = [status EXCEPT
                                 ![r].CurrentTask = "creating_vm",
                                 ![r].Status = "failed",
                                 ![r].Error = "failed to create VM"]
                 /\ Return(r, "create error")
    /\ UNCHANGED <<req, now, deadline, readyCtx, tick, taskIdx, resp, taskLog, apiVars>>

\* FailWithCleanup that returns without looking at the auto-cleanup flag
FailWithCleanup_skip(r, text, err) ==
    /\ status' = [status EXCEPT ![r].Status = "failed", ![r].Error = text]
    /\ Return(r, err)

\* FailWithCleanup that leaves the Error field empty
FailWithCleanup_noError(r, text, err) ==
    /\ status' = [status EXCEPT ![r].Status = "failed"]
    /\ IF req[r].autoCleanup
       THEN /\ ret' = [ret EXCEPT ![r] = err]
            /\ Goto(r, "cleanup")
       ELSE Return(r, err)

\* FailWithCleanup that cleans up whatever the auto-cleanup flag says
FailWithCleanup_always(r, text, err) ==
    /\ status' = [status EXCEPT ![r].Status = "failed", ![r].Error = text]
    /\ ret' = [ret EXCEPT ![r] = err]
    /\ Goto(r, "cleanup")

\* vm.go:123-128 and 137-142: a fatal failure after the instance exists
FailWithCleanup(r, text, err) ==
    /\ status' = [status EXCEPT ![r].Status = "failed", ![r].Error = text]
    /\ IF req[r].autoCleanup
       THEN /\ ret' = [ret EXCEPT ![r] = err]
            /\ Goto(r, "cleanup")
       ELSE Return(r, err)

\* the expiry of a readiness context that is not derived from the deployment
\* context
ReadyDeadline_stageOnly(r) == now[r] + ReadyTimeout

\* vm.go:122,313: context.WithTimeout(ctx, 10 minutes) on the deployment context
ReadyDeadline(r) == Min(deadline[r], now[r] + ReadyTimeout)

\* WaitReadyStart that leaves CurrentTask at the stage before
WaitReadyStart_noTask(r) ==
    /\ pc[r] = "wait_ready"
    /\ readyCtx' = [readyCtx EXCEPT ![r] = ReadyDeadline(r)]
    /\ tick' = [tick EXCEPT ![r] = now[r] + TickerInterval]
    /\ Goto(r, "poll")
    /\ UNCHANGED <<req, status, now, deadline, taskIdx, calls, ret, resp, cloud, taskLog, apiVars>>

\* vm.go:121-122, 310-317: enter waitForVMReady; its context is derived from
\* the deployment context, so it expires no later than that one
WaitReadyStart(r) ==
    /\ pc[r] = "wait_ready"
    /\ status' = [status EXCEPT ![r].CurrentTask = "waiting_for_vm_ready"]
    /\ readyCtx' = [readyCtx EXCEPT ![r] = ReadyDeadline(r)]
    /\ tick' = [tick EXCEPT ![r] = now[r] + TickerInterval]
    /\ Goto(r, "poll")
    /\ UNCHANGED <<req, now, deadline, taskIdx, calls, ret, resp, cloud, taskLog, apiVars>>

\* PollCtxDone that starts the readiness wait over when its context expires
PollCtxDone_restart(r) ==
    /\ pc[r] = "poll"
    /\ readyCtx[r] <= tick[r]
    /\ now' = [now EXCEPT ![r] = Max(@, readyCtx[r])]
    /\ Goto(r, "wait_ready")
    /\ UNCHANGED <<req, status, deadline, readyCtx, tick, taskIdx, calls, ret, resp, cloud, taskLog, apiVars>>

\* vm.go:321-322 and 123-128: the select takes ctx.Done; when the ticker is
\* ready at the same instant either case may be taken
PollCtxDone(r) ==
    /\ pc[r] = "poll"
    /\ readyCtx[r] <= tick[r]
    /\ now' = [now EXCEPT ![r] = Max(@, readyCtx[r])]
    /\ FailWithCleanup(r, "VM failed to become ready", "timeout waiting for VM to be ready")
    /\ UNCHANGED <<req, deadline, readyCtx, tick, taskIdx, calls, resp, cloud, taskLog, apiVars>>

\* vm.go:323-336 and 130: the select takes the ticker and polls GetVM
PollTicker(r) ==
    /\ pc[r] = "poll"
    /\ tick[r] <= readyCtx[r]
    /\ now' = [now EXCEPT ![r] = tick[r]]
    /\ tick' = [tick EXCEPT ![r] = @ + TickerInterval]
    /\ \E ok \in BOOLEAN, power \in PowerStates :
         /\ ok => tick[r] < readyCtx[r]
         /\ ~ok => power = "Unknown"
         /\ IF ok /\ power = "VM running"
            THEN /\ status' = [status EXCEPT
                                 ![r].CompletedTasks = Append(@, "vm_ready")]
                 /\ Goto(r, IF MeshEnabled(r) THEN "gen_mesh_files" ELSE AfterMesh(r))
            ELSE /\ status' = status
                 /\ pc' = pc
    /\ UNCHANGED <<req, deadline, readyCtx, taskIdx, calls, ret, resp, cloud, taskLog, apiVars>>

\* name of the WorkloadEntry / ServiceEntry of a VM (handlers.go:492,514)
WorkloadEntryName(vmName) == "vm-" \o vmName
ServiceEntryName(vmName) == "vm-" \o vmName \o "-service"

\* handlers.go:484-489: the labels map as CreateWorkloadEntryForVM leaves it;
\* a nil map is replaced by a local one, any other is written in place
VMLabels(labels, vmName) ==
    IF labels.nil THEN labels
    ELSE [labels EXCEPT !.app = vmName, !.version = "v1"]

\* the WorkloadEntry / ServiceEntry a run creates: name and namespace
\* (vm.go:150,162)
WorkloadEntryId(r) ==
    <<WorkloadEntryName(status[r].VM.Name), Namespace(req[r].mesh.namespace)>>
ServiceEntryId(r) ==
    <<ServiceEntryName(status[r].VM.Name), Namespace(req[r].mesh.namespace)>>

\* GenerateMeshFiles with a failure only logged, like the registrations
GenerateMeshFiles_advisory(r) ==
    /\ pc[r] = "gen_mesh_files"
    /\ \E outcome \in {"ok", "no_account", "account_only"} :
         /\ CtxExpired(r) => outcome = "no_account"
         /\ calls' = [calls EXCEPT ![r] =
                        IF outcome = "no_account"
                        THEN Append(@, Call("GenerateVMFiles", status[r].VM.Name, CtxExpired(r), FALSE))
                        ELSE Append(Append(@,
                               Call("CreateServiceAccount", WorkloadEntryName(status[r].VM.Name), FALSE, TRUE)),
                               Call("GenerateVMFiles", status[r].VM.Name, FALSE, outcome = "ok"))]
         /\ status' = [status EXCEPT
                         ![r].CurrentTask = "generating_mesh_files",
                         ![r].MeshFiles = (outcome = "ok"),
                         ![r].CompletedTasks =
                             IF outcome = "ok" THEN Append(@, "mesh_files_generated") ELSE @]
         /\ Goto(r, "workload_entry")
         /\ ret' = ret
    /\ UNCHANGED <<req, now, deadline, readyCtx, tick, taskIdx, resp, cloud, taskLog, apiVars>>

\* vm.go:133-145: step 4, istioService.GenerateVMFiles.  The call first
\* creates a ServiceAccount with kubectl (handlers.go:610-619) and can
\* fail before or after that; nothing of it enters CreatedResources
GenerateMeshFiles(r) ==
    /\ pc[r] = "gen_mesh_files"
    /\ \E outcome \in {"ok", "no_account", "account_only"} :
         /\ CtxExpired(r) => outcome = "no_account"
         /\ calls' = [calls EXCEPT ![r] =
                        IF outcome = "no_account"
                        THEN Append(@, Call("GenerateVMFiles", status[r].VM.Name, CtxExpired(r), FALSE))
                        ELSE Append(Append(@,
                               Call("CreateServiceAccount", WorkloadEntryName(status[r].VM.Name), FALSE, TRUE)),
                               Call("GenerateVMFiles", status[r].VM.Name, FALSE, outcome = "ok"))]
         /\ IF outcome = "ok"
            THEN /\ status' = [status EXCEPT
                                 ![r].CurrentTask = "generating_mesh_files",
                                 ![r].MeshFiles = TRUE,
                                 ![r].CompletedTasks = Append(@, "mesh_files_generated")]
                 /\ Goto(r, "workload_entry")
                 /\ ret' = ret
            ELSE /\ status' = [status EXCEPT
                                 ![r].CurrentTask = "generating_mesh_files",
                                 ![r].Status = "failed",
                                 ![r].Error = "failed to generate mesh files"]
                 /\ IF req[r].autoCleanup
                    THEN /\ ret' = [ret EXCEPT ![r] = "mesh files error"]
                         /\ Goto(r, "cleanup")
                    ELSE Return(r, "mesh files error")
    /\ UNCHANGED <<req, now, deadline, readyCtx, tick, taskIdx, resp, cloud, taskLog, apiVars>>

\* CreateWorkloadEntry that records the entry whatever the call returned
CreateWorkloadEntry_recordAlways(r) ==
    /\ pc[r] = "workload_entry"
    /\ IF req[r].mesh.cwe
       THEN \E ok \in BOOLEAN :
              /\ ok => ~CtxExpired(r)
              /\ ok => WorkloadEntryId(r) \notin cloud.we
              /\ req' = [req EXCEPT ![r].mesh.labels = VMLabels(@, status[r].VM.Name)]
              /\ cloud' = IF ok THEN [cloud EXCEPT !.we = @ \cup {WorkloadEntryId(r)}] ELSE cloud
              /\ calls' = [calls EXCEPT ![r] =
                             Append(@, Call("CreateWorkloadEntry",
                                            WorkloadEntryName(status[r].VM.Name), CtxExpired(r), ok))]
              /\ status' = [status EXCEPT
                              ![r].CurrentTask = "creating_workload_entry",
                              ![r].CreatedResources =
                                  Append(@, "workloadentry:" \o WorkloadEntryName(status[r].VM.Name)),
                              ![r].CompletedTasks = Append(@, "workload_entry_created")]
       ELSE UNCHANGED <<calls, status, req, cloud>>
    /\ Goto(r, "service_entry")
    /\ UNCHANGED <<now, deadline, readyCtx, tick, taskIdx, ret, resp, taskLog, apiVars>>

\* vm.go:147-157: step 5, CreateWorkloadEntryForVM; a failure is only logged
CreateWorkloadEntry(r) ==
    /\ pc[r] = "workload_entry"
    /\ IF req[r].mesh.cwe
       THEN \E ok \in BOOLEAN :
              /\ ok => ~CtxExpired(r)
              /\ ok => WorkloadEntryId(r) \notin cloud.we
              /\ req' = [req EXCEPT ![r].mesh.labels = VMLabels(@, status[r].VM.Name)]
              /\ cloud' = IF ok THEN [cloud EXCEPT !.we = @ \cup {WorkloadEntryId(r)}] ELSE cloud
              /\ calls' = [calls EXCEPT ![r] =
                             Append(@, Call("CreateWorkloadEntry",
                                            WorkloadEntryName(status[r].VM.Name), CtxExpired(r), ok))]
              /\ status' = [status EXCEPT
                              ![r].CurrentTask = "creating_workload_entry",
                              ![r].CreatedResources =
                                  IF ok THEN Append(@, "workloadentry:" \o WorkloadEntryName(status[r].VM.Name))
                                  ELSE @,
                              ![r].CompletedTasks =
                                  IF ok THEN Append(@, "workload_entry_created") ELSE @]
       ELSE UNCHANGED <<calls, status, req, cloud>>
    /\ Goto(r, "service_entry")
    /\ UNCHANGED <<now, deadline, readyCtx, tick, taskIdx, ret, resp, taskLog, apiVars>>

\* CreateServiceEntry that records the manifest entry only
CreateServiceEntry_noCompleted(r) ==
    /\ pc[r] = "service_entry"
    /\ IF req[r].mesh.cse /\ req[r].serviceName # ""
       THEN \E ok \in BOOLEAN :
              /\ ok => ~CtxExpired(r)
              /\ ok => ServiceEntryId(r) \notin cloud.se
              /\ cloud' = IF ok THEN [cloud EXCEPT !.se = @ \cup {ServiceEntryId(r)}] ELSE cloud
              /\ calls' = [calls EXCEPT ![r] =
                             Append(@, Call("CreateServiceEntry",
                                            ServiceEntryName(status[r].VM.Name), CtxExpired(r), ok))]
              /\ status' = [status EXCEPT
                              ![r].CurrentTask = "creating_service_entry",
                              ![r].CreatedResources =
                                  IF ok THEN Append(@, "serviceentry:" \o ServiceEntryName(status[r].VM.Name))
                                  ELSE @]
       ELSE UNCHANGED <<calls, status, cloud>>
    /\ Goto(r, AfterMesh(r))
    /\ UNCHANGED <<req, now, deadline, readyCtx, tick, taskIdx, ret, resp, taskLog, apiVars>>

\* vm.go:159-170: step 6, CreateServiceEntryForVM, skipped without a service
\* name; a failure is only logged
CreateServiceEntry(r) ==
    /\ pc[r] = "service_entry"
    /\ IF req[r].mesh.cse /\ req[r].serviceName # ""
       THEN \E ok \in BOOLEAN :
              /\ ok => ~CtxExpired(r)
              /\ ok => ServiceEntryId(r) \notin cloud.se
              /\ cloud' = IF ok THEN [cloud EXCEPT !.se = @ \cup {ServiceEntryId(r)}] ELSE cloud
              /\ calls' = [calls EXCEPT ![r] =
                             Append(@, Call("CreateServiceEntry",
                                            ServiceEntryName(status[r].VM.Name), CtxExpired(r), ok))]
              /\ status' = [status EXCEPT
                              ![r].CurrentTask = "creating_service_entry",
                              ![r].CreatedResources =
                                  IF ok THEN Append(@, "serviceentry:" \o ServiceEntryName(status[r].VM.Name))
                                  ELSE @,
                              ![r].CompletedTasks =
                                  IF ok THEN Append(@, "service_entry_created") ELSE @]
       ELSE UNCHANGED <<calls, status, cloud>>
    /\ Goto(r, AfterMesh(r))
    /\ UNCHANGED <<req, now, deadline, readyCtx, tick, taskIdx, ret, resp, taskLog, apiVars>>

\* vm.go:355-360: the duration a wait task sleeps
WaitDuration(task) ==
    IF task.duration # Nil /\ ParseDuration(task.duration) # -1
    THEN ParseDuration(task.duration)
    ELSE DefaultWaitDuration

\* vm.go:380-395: validateVMService reads the VMInfo CreateVM returned
validateVMService(vm, task) ==
    IF vm.Status # "VM running" THEN "VM is not running" ELSE Nil

\* TaskError that lets a task of an unrecognised type pass
TaskError_lenient(vm, task) ==
    CASE task.type = "wait"     -> Nil
      [] task.type = "validate" -> validateVMService(vm, task)
      [] task.type = "script"   -> Nil
      [] OTHER                  -> Nil

\* vm.go:352-377: the error executePostBootTask returns
TaskError(vm, task) ==
    CASE task.type = "wait"     -> Nil
      [] task.type = "validate" -> validateVMService(vm, task)
      [] task.type = "script"   -> Nil
      [] OTHER                  -> "unknown task type"

\* vm.go:363: time.Sleep, which no context interrupts
TaskSleep(task) == IF task.type = "wait" THEN Max(0, WaitDuration(task)) ELSE 0

\* the timeout of a task context that ignores timeout_seconds
TaskTimeout_default(task) == DefaultTaskTimeout

\* vm.go:342-345: the timeout of the task context
TaskTimeout(task) ==
    IF task.timeoutSeconds > 0
    THEN task.timeoutSeconds \div SecondsPerUnit
    ELSE DefaultTaskTimeout

\* number of passes through the switch with retries up to the retry count
TaskAttempts_retryAll(task) == task.retryCount + 2

\* vm.go:352-377: every case of the switch runs once and returns; RetryCount
\* is not read
TaskAttempts(task) == 1

\* the stage after a task, were the loop left at the first failed task
NextTaskStage_break(r, err) ==
    IF taskIdx[r] < Len(req[r].tasks) /\ err = Nil THEN "run_task" ELSE "final_validation"

\* vm.go:174-182: the range loop goes on to the next task whatever the task
\* returned
NextTaskStage(r, err) ==
    IF taskIdx[r] < Len(req[r].tasks) THEN "run_task" ELSE "final_validation"

\* vm.go:172-183 and 340-378: step 7, one iteration of the task loop
ExecutePostBootTask(r) ==
    /\ pc[r] = "run_task"
    /\ LET task == req[r].tasks[taskIdx[r]]
           err == TaskError(status[r].VM, task)
       IN /\ now' = [now EXCEPT ![r] = @ + TaskSleep(task)]
          /\ status' = [status EXCEPT
                          ![r].CurrentTask = "executing_task_" \o task.name,
                          ![r].CompletedTasks =
                              IF err = Nil
                              THEN Append(@, "task_" \o task.name \o "_completed")
                              ELSE @]
          /\ taskLog' = [taskLog EXCEPT ![r] = Append(@,
                            [name |-> task.name, type |-> task.type, err |-> err,
                             start |-> now[r], end |-> now[r] + TaskSleep(task),
                             ctxDeadline |-> Min(deadline[r], now[r] + TaskTimeout(task)),
                             attempts |-> TaskAttempts(task)])]
          /\ Goto(r, NextTaskStage(r, err))
    /\ taskIdx' = [taskIdx EXCEPT ![r] = @ + 1]
    /\ UNCHANGED <<req, deadline, readyCtx, tick, calls, ret, resp, cloud, apiVars>>

\* the completed list with the validation recorded whatever the check answered
ValidationRecord_always(completed, connected) ==
    Append(completed, "mesh_validation_passed")

\* the completed list with the validation put in front of the earlier entries
ValidationRecord_first(completed, connected) ==
    IF connected THEN <<"mesh_validation_passed">> \o completed ELSE completed

\* vm.go:188-192: the validation is recorded when the check returned true
\* without an error
ValidationRecord(completed, connected) ==
    IF connected THEN Append(completed, "mesh_validation_passed") ELSE completed

\* vm.go:185-200: step 8, final validation; the run completes whatever
\* ValidateVMConnection answers
FinalValidation(r) ==
    /\ pc[r] = "final_validation"
    /\ IF MeshEnabled(r)
       THEN \E connected \in BOOLEAN :
              /\ connected => ~CtxExpired(r)
              /\ calls' = [calls EXCEPT ![r] =
                             Append(@, Call("ValidateVMConnection",
                                            status[r].VM.PrivateIP, CtxExpired(r), connected))]
              /\ status' = [status EXCEPT
                              ![r].Status = "completed",
                              ![r].CurrentTask = "",
                              ![r].CompletedTasks = ValidationRecord(@, connected)]
       ELSE /\ calls' = calls
            /\ status' = [status EXCEPT ![r].Status = "completed", ![r].CurrentTask = ""]
    /\ Return(r, Nil)
    /\ UNCHANGED <<req, now, deadline, readyCtx, tick, taskIdx, resp, cloud, taskLog, apiVars>>

\* cleanupDeployment that deletes the VM once per manifest entry and once more
\* at the end
cleanupDeployment_perEntry(r) ==
    /\ pc[r] = "cleanup"
    /\ \E ok \in BOOLEAN :
         /\ ok => ~CtxExpired(r)
         /\ calls' = [calls EXCEPT ![r] =
                        Append(Append(@, Call("DeleteVM", req[r].name, CtxExpired(r), ok)),
                               Call("DeleteVM", req[r].name, CtxExpired(r), ok))]
         /\ cloud' = IF ok THEN [cloud EXCEPT !.vm = @ \ {req[r].name}] ELSE cloud
    /\ Goto(r, "returned")
    /\ UNCHANGED <<req, status, now, deadline, readyCtx, tick, taskIdx, ret, resp, taskLog, apiVars>>

\* cleanupDeployment that empties the manifest it walked
cleanupDeployment_consume(r) ==
    /\ pc[r] = "cleanup"
    /\ \E ok \in BOOLEAN :
         /\ ok => ~CtxExpired(r)
         /\ calls' = [calls EXCEPT ![r] =
                        Append(@, Call("DeleteVM", req[r].name, CtxExpired(r), ok))]
         /\ cloud' = IF ok THEN [cloud EXCEPT !.vm = @ \ {req[r].name}] ELSE cloud
    /\ status' = [status EXCEPT ![r].CreatedResources = <<>>]
    /\ Goto(r, "returned")
    /\ UNCHANGED <<req, now, deadline, readyCtx, tick, taskIdx, ret, resp, taskLog, apiVars>>

\* vm.go:397-409 and 128/142: cleanupDeployment logs the manifest entries and
\* deletes the VM with the context DeployVM handed it, then DeployVM returns
cleanupDeployment(r) ==
    /\ pc[r] = "cleanup"
    /\ \E ok \in BOOLEAN :
         /\ ok => ~CtxExpired(r)
         /\ calls' = [calls EXCEPT ![r] =
                        Append(@, Call("DeleteVM", req[r].name, CtxExpired(r), ok))]
         /\ cloud' = IF ok THEN [cloud EXCEPT !.vm = @ \ {req[r].name}] ELSE cloud
    /\ Goto(r, "returned")
    /\ UNCHANGED <<req, status, now, deadline, readyCtx, tick, taskIdx, ret, resp, taskLog, apiVars>>

----------------------------------------------------------------------------
(* Handler.GetVMDeploymentStatus and Handler.CleanupDeployment, the status *)
(* and cleanup endpoints of a deployment (handlers.go:96-111, 147-162)    *)

\* the names a client can ask about
RequestedNames == {req[r].name : r \in Runs} \ {""}

\* handlers.go:96-111 and vm.go:203-217: GetVM, then a status built from the
\* VM alone; 404 when GetVM fails
GetVMDeploymentStatus(n) ==
    /\ \E ok \in BOOLEAN :
         /\ ok => n \in cloud.vm
         /\ polled' = IF ok
                       THEN [NoPoll EXCEPT !.name = n, !.code = 200, !.Status = "running"]
                       ELSE [NoPoll EXCEPT !.name = n, !.code = 404]
    /\ UNCHANGED <<pc, req, status, now, deadline, readyCtx, tick, taskIdx, calls, ret, resp,
                   cloud, taskLog, cleanups, cleanupPre, cleanupCalls, cleanupRet>>

\* A collaborator call of a cleanup request; fault tells a failure that is
\* not the answer "not found"
CleanupCall(op, target, ns, fault, ok) ==
    [op |-> op, target |-> target, ns |-> ns, fault |-> fault, ok |-> ok]

\* handlers.go:540-560 with KubernetesService.DeleteWorkloadEntry and
\* DeleteServiceEntry: both deletes are issued in the resolved namespace; a
\* delete of an absent record fails with "not found"
CleanupVMResources(n, namespace, faultWE, faultSE) ==
    LET ns == Namespace(namespace)
    IN <<CleanupCall("DeleteWorkloadEntry", WorkloadEntryName(n), ns, faultWE,
                     ~faultWE /\ <<WorkloadEntryName(n), ns>> \in cloud.we),
         CleanupCall("DeleteServiceEntry", ServiceEntryName(n), ns, faultSE,
                     ~faultSE /\ <<ServiceEntryName(n), ns>> \in cloud.se)>>

\* the records the successful calls of a sequence removed
RemovedBy(cs, op) ==
    {<<cs[i].target, cs[i].ns>> : i \in {j \in 1..Len(cs) : cs[j].op = op /\ cs[j].ok}}

\* the error VMService.CleanupDeployment returns, were the error of
\* CleanupVMResources returned like the one of DeleteVM
CleanupError_strict(cs) ==
    IF \E i \in 1..Len(cs) : ~cs[i].ok THEN "failed to cleanup" ELSE Nil

\* vm.go:223-234: what CleanupVMResources reports is logged (it reports
\* nothing, handlers.go:549-559); the error of DeleteVM is returned
CleanupError(cs) ==
    IF \E i \in 1..Len(cs) : cs[i].op = "DeleteVM" /\ ~cs[i].ok
    THEN "failed to delete VM" ELSE Nil

\* handlers.go:147-164, vm.go:219-235, azure.go:221-257: cleanup by name.
\* The deregistrations go to the default namespace; BeginDelete answers the
\* delete of an absent VM like the delete of a present one
CleanupDeployment(n) ==
    /\ cleanups < MaxCleanups
    /\ \A r \in Runs : pc[r] \in {"idle", "done"}
    /\ \E faultWE \in BOOLEAN, faultSE \in BOOLEAN, faultVM \in BOOLEAN :
         LET cs == CleanupVMResources(n, "", faultWE, faultSE)
                     \o <<CleanupCall("DeleteVM", n, "", faultVM, ~faultVM)>>
         IN /\ cleanupCalls' = cs
            /\ cleanupRet' = CleanupError(cs)
            /\ cloud' = [vm |-> IF faultVM THEN cloud.vm ELSE cloud.vm \ {n},
                         we |-> cloud.we \ RemovedBy(cs, "DeleteWorkloadEntry"),
                         se |-> cloud.se \ RemovedBy(cs, "DeleteServiceEntry")]
    /\ cleanupPre' = cloud
    /\ cleanups' = cleanups + 1
    /\ UNCHANGED <<pc, req, status, now, deadline, readyCtx, tick, taskIdx, calls, ret, resp,
                   taskLog, polled>>

----------------------------------------------------------------------------
(* Specifications *)

InitRun(requests) ==
    /\ req \in [Runs -> requests \cup {NoRequest}]
    /\ pc = [r \in Runs |-> IF req[r] = NoRequest THEN "idle" ELSE "handler"]
    /\ status = [r \in Runs |-> NoStatus]
    /\ now = [r \in Runs |-> 0]
    /\ deadline = [r \in Runs |-> 0]
    /\ readyCtx = [r \in Runs |-> 0]
    /\ tick = [r \in Runs |-> 0]
    /\ taskIdx = [r \in Runs |-> 1]
    /\ calls = [r \in Runs |-> <<>>]
    /\ ret = [r \in Runs |-> "none"]
    /\ resp = [r \in Runs |-> [code |-> 0, body |-> ""]]
    /\ cloud = NoResources
    /\ taskLog = [r \in Runs |-> <<>>]
    /\ polled = NoPoll
    /\ cleanups = 0
    /\ cleanupPre = NoResources
    /\ cleanupCalls = <<>>
    /\ cleanupRet = "none"

\* one request being served
Init ==
    /\ InitRun(ValidRequests({"vm1"}) \cup InvalidRequests({"vm1"}))
    /\ req["r1"] # NoRequest
    /\ req["r2"] = NoRequest

Step(r) ==
    \/ HandlerBind(r)
    \/ DeployStart(r)
    \/ GenerateCloudInit(r)
    \/ CreateVM(r)
    \/ WaitReadyStart(r)
    \/ PollCtxDone(r)
    \/ PollTicker(r)
    \/ GenerateMeshFiles(r)
    \/ CreateWorkloadEntry(r)
    \/ CreateServiceEntry(r)
    \/ ExecutePostBootTask(r)
    \/ FinalValidation(r)
    \/ cleanupDeployment(r)
    \/ HandlerRespond(r)

Next == \E r \in Runs : Step(r)

Spec == Init /\ [][Next]_vars

\* two requests served concurrently, each on its own goroutine; the second
\* may name the same instance as the first
ConcRequests(names) ==
    {q \in ValidRequests(names) :
        /\ q.timeoutMinutes = 1
        /\ q.autoCleanup
        /\ q.serviceName = "svc"
        /\ q.mesh.enabled /\ q.mesh.cwe /\ q.mesh.cse
        /\ Len(q.tasks) = 1 /\ q.tasks[1].type = "validate"}

InitConc ==
    /\ InitRun(ConcRequests({"vm1", "vm2"}) \cup InvalidRequests({"vm2"}))
    /\ req["r1"] \in ConcRequests({"vm1"})
    /\ req["r2"] # NoRequest

SpecConc == InitConc /\ [][Next]_vars

\* one deployment and the clients of its status and cleanup endpoints; the
\* cleanup requests arrive after the deployment request was answered
OpsRequests(names) ==
    {q \in ValidRequests(names) :
        /\ q.timeoutMinutes = 1
        /\ q.serviceName = "svc"
        /\ \A i \in 1..Len(q.tasks) : q.tasks[i].type = "validate"}

InitOps ==
    /\ InitRun(OpsRequests({"vm1"}))
    /\ req["r1"] # NoRequest
    /\ req["r2"] = NoRequest

NextOps ==
    \/ Next
    \/ \E n \in RequestedNames : GetVMDeploymentStatus(n)
    \/ \E n \in RequestedNames : CleanupDeployment(n)

SpecOps == InitOps /\ [][NextOps]_vars

\* one deployment with a longer list of post-boot tasks
TaskRequests(names) ==
    {q \in Requests(names, SeqsUpTo(TaskPool, MaxTaskList)) :
        /\ q.timeoutMinutes = 1
        /\ q.serviceName = "svc"
        /\ q.mesh.present => (q.mesh.enabled /\ q.mesh.cwe /\ q.mesh.cse
                                 /\ q.mesh.namespace = "")}

InitTasks ==
    /\ InitRun(TaskRequests({"vm1"}) \cup InvalidRequests({"vm1"}))
    /\ req["r1"] # NoRequest
    /\ req["r2"] = NoRequest

SpecTasks == InitTasks /\ [][Next]_vars

\* the same runs under fair scheduling: the goroutine serving a request is
\* scheduled again whenever it has a step to take, and every call it makes
\* to a collaborator returns (each action is one such call or one local step)
LiveRequests(names) ==
    {q \in ValidRequests(names) :
        /\ q.serviceName = "svc"
        /\ q.mesh.present => (q.mesh.enabled /\ q.mesh.cwe /\ q.mesh.cse
                                 /\ q.mesh.namespace = "")}

InitLive ==
    /\ InitRun(LiveRequests({"vm1"}) \cup InvalidRequests({"vm1"}))
    /\ req["r1"] # NoRequest
    /\ req["r2"] = NoRequest

SpecLive == InitLive /\ [][Next]_vars /\ \A r \in Runs : WF_vars(Step(r))

----------------------------------------------------------------------------
(* Vocabulary of the properties *)

InSeq(x, s) == \E i \in 1..Len(s) : s[i] = x

Reverse(s) == [i \in 1..Len(s) |-> s[Len(s) + 1 - i]]

\* DeployVM has returned to the handler
Returned(r) == pc[r] \in {"returned", "done"} /\ ret[r] # "none"

Issued(r, op) == \E i \in 1..Len(calls[r]) : calls[r][i].op = op
Succeeded(r, op) == \E i \in 1..Len(calls[r]) : calls[r][i].op = op /\ calls[r][i].ok
Failed(r, op) == \E i \in 1..Len(calls[r]) : calls[r][i].op = op /\ ~calls[r][i].ok

DeleteOps == {"DeleteVM", "DeleteWorkloadEntry", "DeleteServiceEntry"}
MeshDeleteOps == {"DeleteWorkloadEntry", "DeleteServiceEntry"}

IsDelete(c) == c.op \in DeleteOps
IsMeshDelete(c) == c.op \in MeshDeleteOps

\* the manifest entry a delete call removes
ManifestId(c) ==
    CASE c.op = "DeleteVM"            -> "vm:" \o c.target
      [] c.op = "DeleteWorkloadEntry" -> "workloadentry:" \o c.target
      [] c.op = "DeleteServiceEntry"  -> "serviceentry:" \o c.target
      [] OTHER                        -> ""

\* the manifest entries of the delete calls of a run, in call order
Deleted(r) ==
    LET d == SelectSeq(calls[r], IsDelete)
    IN [i \in 1..Len(d) |-> ManifestId(d[i])]

FailedRun(r) == Returned(r) /\ status[r].Status = "failed"

----------------------------------------------------------------------------
(* Properties *)

\* C1: a run with auto-cleanup that fails fatally after creating resources
\* issues exactly one delete call per manifest entry, in reverse creation
\* order
C1_CleanupReverseOrder ==
    \A r \in Runs :
        (FailedRun(r) /\ req[r].autoCleanup /\ status[r].CreatedResources # <<>>)
            => Deleted(r) = Reverse(status[r].CreatedResources)

C1_Witness ==
    \E r \in Runs :
        /\ FailedRun(r) /\ req[r].autoCleanup
        /\ InSeq("vm_ready", status[r].CompletedTasks)
        /\ Failed(r, "GenerateVMFiles")
        /\ Len(status[r].CreatedResources) = 1
        /\ Len(Deleted(r)) = 1

\* C2: a run that fails while generating the boot configuration or in
\* CreateVM returns an empty manifest and has issued no delete or deregister
\* call, with or without auto-cleanup
C2_NoCleanupBeforeInstance ==
    \A r \in Runs :
        (FailedRun(r) /\ status[r].CurrentTask \in {"generating_cloud_init", "creating_vm"})
            => /\ status[r].CreatedResources = <<>>
               /\ Deleted(r) = <<>>

C2_Witness ==
    \E r \in Runs :
        /\ FailedRun(r) /\ req[r].autoCleanup
        /\ status[r].CurrentTask = "creating_vm"
        /\ Failed(r, "CreateVM")

\* C3: CreateVM succeeded, the readiness wait never saw the VM running and
\* auto-cleanup is set: the run is failed, exactly one DeleteVM was issued for
\* the instance and no mesh resource was deleted
C3_ReadyTimeoutCleanup ==
    \A r \in Runs :
        (/\ Returned(r) /\ req[r].autoCleanup
         /\ Succeeded(r, "CreateVM")
         /\ ~InSeq("vm_ready", status[r].CompletedTasks))
            => /\ status[r].Status = "failed"
               /\ Deleted(r) = <<"vm:" \o req[r].name>>
               /\ SelectSeq(calls[r], IsMeshDelete) = <<>>

C3_Witness ==
    \E r \in Runs :
        /\ Returned(r) /\ req[r].autoCleanup
        /\ Succeeded(r, "CreateVM")
        /\ status[r].CurrentTask = "waiting_for_vm_ready"
        /\ now[r] >= readyCtx[r]

\* C4: from the state right after a successful CreateVM on, the manifest
\* contains the instance
C4_InstanceInManifest ==
    \A r \in Runs :
        Succeeded(r, "CreateVM")
            => InSeq("vm:" \o req[r].name, status[r].CreatedResources)

C4_Witness ==
    \E r \in Runs :
        /\ pc[r] = "wait_ready"
        /\ Succeeded(r, "CreateVM")
        /\ status[r].CreatedResources = <<"vm:" \o req[r].name>>

\* C5: a request with mesh integration enabled, a service entry requested and
\* no service name never reaches CreateVM and is answered with a client error
C5_ServiceNameRequired ==
    \A r \in Runs :
        (MeshEnabled(r) /\ req[r].mesh.cse /\ req[r].serviceName = "")
            => /\ ~Issued(r, "CreateVM")
               /\ pc[r] = "done" => resp[r].code = 400

\* C6: a run whose deployment deadline expired before it returned is failed
C6_DeadlineFailsRun ==
    \A r \in Runs :
        (Returned(r) /\ now[r] > deadline[r]) => status[r].Status = "failed"

\* C7: no delete call of the auto-cleanup is issued with an expired context
C7_CleanupContextFresh ==
    \A r \in Runs : \A i \in 1..Len(calls[r]) :
        IsDelete(calls[r][i]) => ~calls[r][i].expired

\* C8: two runs for the same instance name never both reach CreateVM
C8_SameNameConflict ==
    \A r1 \in Runs, r2 \in Runs :
        (r1 # r2 /\ req[r1].name # "" /\ req[r1].name = req[r2].name)
            => ~(Issued(r1, "CreateVM") /\ Issued(r2, "CreateVM"))

\* C9: once GenerateVMFiles has failed the run is failed with the error
\* recorded, no registration, task or final validation follows, and the
\* instance is deleted exactly when auto-cleanup is set
C9_TrustMaterialFatal ==
    \A r \in Runs :
        Failed(r, "GenerateVMFiles")
            => /\ status[r].Status = "failed"
               /\ status[r].Error = "failed to generate mesh files"
               /\ ret[r] \notin {"none", Nil}
               /\ pc[r] \in {"cleanup", "returned", "done"}
               /\ ~Issued(r, "CreateWorkloadEntry")
               /\ ~Issued(r, "CreateServiceEntry")
               /\ ~Issued(r, "ValidateVMConnection")
               /\ taskIdx[r] = 1
               /\ status[r].CompletedTasks = <<"cloud_init_generated", "vm_created", "vm_ready">>
               /\ Returned(r) => (Issued(r, "DeleteVM") <=> req[r].autoCleanup)

C9_Witness ==
    \E r \in Runs :
        /\ Returned(r)
        /\ Failed(r, "GenerateVMFiles")
        /\ req[r].mesh.cwe /\ Len(req[r].tasks) > 0
        /\ ~req[r].autoCleanup

\* C10: a failed CreateWorkloadEntry or CreateServiceEntry leaves the run to
\* go through every task and end completed; its identifier is not in
\* CompletedTasks and no manifest entry of its kind is recorded
C10_RegistrationAdvisory ==
    \A r \in Runs :
        Returned(r) =>
            /\ Failed(r, "CreateWorkloadEntry")
                 => /\ status[r].Status = "completed" /\ ret[r] = Nil
                    /\ taskIdx[r] = Len(req[r].tasks) + 1
                    /\ ~InSeq("workload_entry_created", status[r].CompletedTasks)
                    /\ ~InSeq("workloadentry:" \o WorkloadEntryName(req[r].name),
                              status[r].CreatedResources)
            /\ Failed(r, "CreateServiceEntry")
                 => /\ status[r].Status = "completed" /\ ret[r] = Nil
                    /\ taskIdx[r] = Len(req[r].tasks) + 1
                    /\ ~InSeq("service_entry_created", status[r].CompletedTasks)
                    /\ ~InSeq("serviceentry:" \o ServiceEntryName(req[r].name),
                              status[r].CreatedResources)

C10_Witness ==
    \E r \in Runs :
        /\ Returned(r)
        /\ Failed(r, "CreateWorkloadEntry")
        /\ Succeeded(r, "CreateServiceEntry")
        /\ Len(req[r].tasks) > 0
        /\ status[r].Status = "completed"

----------------------------------------------------------------------------
(* Vocabulary of the properties on mesh operations, tasks and the endpoints *)

\* the operations of the IstioService a run can invoke
MeshOps ==
    {"CreateServiceAccount", "GenerateVMFiles", "CreateWorkloadEntry",
     "CreateServiceEntry", "ValidateVMConnection"} \cup MeshDeleteOps

\* the identifier a successful task leaves in CompletedTasks (vm.go:180)
TaskId(name) == "task_" \o name \o "_completed"
IsTaskId(x) == \E t \in TaskPool : x = TaskId(t.name)

TaskSucceeded(e) == e.err = Nil

\* the task identifiers of the invocations that returned nil, in order
SucceededTaskIds(r) ==
    LET ok == SelectSeq(taskLog[r], TaskSucceeded)
    IN [i \in 1..Len(ok) |-> TaskId(ok[i].name)]

\* the run whose deployment request named n
RunsOf(n) == {r \in Runs : req[r].name = n /\ pc[r] \notin {"idle", "handler", "deploy"}}

\* the instance the last cleanup request named
CleanupName == cleanupCalls[Len(cleanupCalls)].target

\* nothing of the instance n exists in a resource record
Absent(n, res) ==
    /\ n \notin res.vm
    /\ \A e \in res.we : e[1] # WorkloadEntryName(n)
    /\ \A e \in res.se : e[1] # ServiceEntryName(n)

CleanupIssued(op, target, ns) ==
    \E i \in 1..Len(cleanupCalls) :
        /\ cleanupCalls[i].op = op
        /\ cleanupCalls[i].target = target
        /\ cleanupCalls[i].ns = ns

----------------------------------------------------------------------------
(* Properties of the mesh-less path, the tasks and the endpoints *)

\* C11: a run whose request has no mesh integration, or has it disabled,
\* invokes no operation of the IstioService, never has a mesh entry in its
\* manifest, and once the VM was seen running goes through every task and the
\* final validation and ends completed
C11_NoMeshNoRegistrar ==
    \A r \in Runs :
        ~(req[r].mesh.present /\ req[r].mesh.enabled)
            => /\ \A i \in 1..Len(calls[r]) : calls[r][i].op \notin MeshOps
               /\ \A i \in 1..Len(status[r].CreatedResources) :
                     status[r].CreatedResources[i] = "vm:" \o req[r].name
               /\ ~status[r].MeshFiles
               /\ pc[r] \notin {"gen_mesh_files", "workload_entry", "service_entry"}
               /\ (Returned(r) /\ InSeq("vm_ready", status[r].CompletedTasks))
                     => /\ status[r].Status = "completed" /\ ret[r] = Nil
                        /\ Len(taskLog[r]) = Len(req[r].tasks)

C11_Witness ==
    \E r \in Runs :
        /\ Returned(r)
        /\ req[r].mesh.present /\ ~req[r].mesh.enabled
        /\ status[r].Status = "completed"
        /\ Len(req[r].tasks) > 0
        /\ status[r].CreatedResources = <<"vm:" \o req[r].name>>

\* C12: the tasks are invoked once each in request order whatever the earlier
\* ones returned, a task failure never makes the run failed, and
\* task_<name>_completed is in CompletedTasks exactly for the invocations that
\* returned no error
C12_TasksIndependent ==
    \A r \in Runs :
        /\ Len(taskLog[r]) = taskIdx[r] - 1
        /\ Len(taskLog[r]) <= Len(req[r].tasks)
        /\ \A i \in 1..Len(taskLog[r]) : taskLog[r][i].name = req[r].tasks[i].name
        /\ SelectSeq(status[r].CompletedTasks, IsTaskId) = SucceededTaskIds(r)
        /\ Len(taskLog[r]) > 0 => status[r].Status # "failed"
        /\ (Returned(r) /\ status[r].Status = "completed")
              => Len(taskLog[r]) = Len(req[r].tasks)

C12_Witness ==
    \E r \in Runs :
        /\ Returned(r)
        /\ Len(taskLog[r]) = 2
        /\ taskLog[r][1].err # Nil
        /\ taskLog[r][2].err = Nil
        /\ status[r].Status = "completed"

\* C13: when the final validation called ValidateVMConnection the run is
\* completed with a nil error whatever the call answered, and
\* mesh_validation_passed is in CompletedTasks exactly when it answered true
C13_ValidationAdvisory ==
    \A r \in Runs :
        /\ Issued(r, "ValidateVMConnection")
             => /\ status[r].Status = "completed"
                /\ status[r].Error = ""
                /\ ret[r] = Nil
        /\ InSeq("mesh_validation_passed", status[r].CompletedTasks)
             <=> Succeeded(r, "ValidateVMConnection")

C13_Witness ==
    \E r \in Runs :
        /\ Returned(r)
        /\ Failed(r, "ValidateVMConnection")
        /\ status[r].Status = "completed"
        /\ InSeq("workload_entry_created", status[r].CompletedTasks)

\* C14: a wait task of duration D returns after D, or at the deployment
\* deadline when that comes first
C14_WaitStopsAtDeadline ==
    \A r \in Runs : \A i \in 1..Len(taskLog[r]) :
        taskLog[r][i].type = "wait"
            => taskLog[r][i].end - taskLog[r][i].start
                 = Min(WaitDuration(req[r].tasks[i]),
                       Max(0, deadline[r] - taskLog[r][i].start))

C16_CleanupIdempotent ==
    (/\ cleanups >= 2
     /\ Absent(CleanupName, cleanupPre)
     /\ \A i \in 1..Len(cleanupCalls) : ~cleanupCalls[i].fault)
        => cleanupRet = Nil

C16_Witness ==
    /\ cleanups = 2
    /\ Succeeded("r1", "CreateWorkloadEntry")
    /\ Succeeded("r1", "CreateServiceEntry")
    /\ status["r1"].Status = "completed"
    /\ Absent(CleanupName, cleanupPre)
    /\ \A i \in 1..Len(cleanupCalls) : ~cleanupCalls[i].fault
    /\ \E i \in 1..Len(cleanupCalls) : ~cleanupCalls[i].ok
    /\ cleanupRet = Nil

\* C17: a delete that fails during teardown is not returned to the caller and
\* the other deletes are still issued: a run returns the error that made it
\* fail, and a cleanup request issues its three deletes and returns no error
C17_CleanupFailureNotEscalated ==
    /\ \A r \in Runs :
          (Returned(r) /\ Failed(r, "DeleteVM")) => ret[r] # "failed to delete VM"
    /\ cleanups > 0
          => /\ Len(cleanupCalls) = 3
             /\ cleanupRet = Nil

\* C18: a status request for the name of a run that has built its status
\* record, with no cleanup request served, is answered with that record's
\* state, completed list, error and manifest
C18_StatusRetained ==
    [][(polled' # polled /\ cleanups = 0)
          => \A r \in RunsOf(polled'.name) :
                /\ polled'.code = 200
                /\ polled'.Status = status[r].Status
                /\ polled'.CompletedTasks = status[r].CompletedTasks
                /\ polled'.Error = status[r].Error
                /\ polled'.CreatedResources = status[r].CreatedResources]_vars

\* C19: a cleanup request for the instance of a finished run issues the
\* delete of the instance and, for each registration the run created, its
\* delete in the namespace the run created it in
C19_CleanupRemovesAll ==
    cleanups > 0 =>
        \A r \in RunsOf(CleanupName) :
            /\ Succeeded(r, "CreateVM")
                 => CleanupIssued("DeleteVM", req[r].name, "")
            /\ Succeeded(r, "CreateWorkloadEntry")
                 => CleanupIssued("DeleteWorkloadEntry", WorkloadEntryName(req[r].name),
                                  Namespace(req[r].mesh.namespace))
            /\ Succeeded(r, "CreateServiceEntry")
                 => CleanupIssued("DeleteServiceEntry", ServiceEntryName(req[r].name),
                                  Namespace(req[r].mesh.namespace))

\* C20: no step of a run changes a field of its request
C20_RequestImmutable == [][req' = req]_vars

----------------------------------------------------------------------------
(* Vocabulary of the properties on the manifest and the completed list *)

IsPrefix(s, t) == Len(s) <= Len(t) /\ \A i \in 1..Len(s) : s[i] = t[i]

\* the manifest entries DeployVM writes (vm.go:117,154,166)
VMEntry(r) == "vm:" \o req[r].name
WorkloadEntryEntry(r) == "workloadentry:" \o WorkloadEntryName(req[r].name)
ServiceEntryEntry(r) == "serviceentry:" \o ServiceEntryName(req[r].name)

\* the run is past the trust-material sub-step of the mesh block
PastMeshFiles(r) ==
    pc[r] \in {"workload_entry", "service_entry", "run_task", "final_validation",
               "returned", "done"}

\* position of a completed-list entry in the stage order of DeployVM
StageRank(x) ==
    CASE x = "cloud_init_generated"   -> 1
      [] x = "vm_created"             -> 2
      [] x = "vm_ready"               -> 3
      [] x = "mesh_files_generated"   -> 4
      [] x = "workload_entry_created" -> 5
      [] x = "service_entry_created"  -> 6
      [] x = "mesh_validation_passed" -> 8
      [] OTHER                        -> 7

\* later entries belong to later stages; only task entries share a stage
StageOrdered(s) ==
    \A i \in 1..Len(s) : \A j \in 1..Len(s) :
        i < j => /\ StageRank(s[i]) <= StageRank(s[j])
                 /\ StageRank(s[i]) = StageRank(s[j]) => StageRank(s[i]) = 7

\* the completed list of a run that failed in the stage named by CurrentTask
CompletedBefore(task) ==
    CASE task = "generating_cloud_init" -> <<>>
      [] task = "creating_vm"           -> <<"cloud_init_generated">>
      [] task = "waiting_for_vm_ready"  -> <<"cloud_init_generated", "vm_created">>
      [] task = "generating_mesh_files" -> <<"cloud_init_generated", "vm_created", "vm_ready">>
      [] OTHER                          -> <<"no such stage">>

----------------------------------------------------------------------------
(* Properties of the manifest, the readiness wait and the returned status *)

\* C21: once a sub-step of the mesh block has succeeded and the next one can
\* start, the manifest has an entry for what it made: an entry that is not
\* the instance or a registration for the trust material, the workloadentry
\* entry for the workload registration, the serviceentry entry for the
\* service registration
C21_MeshHandlesRecorded ==
    \A r \in Runs :
        /\ (PastMeshFiles(r) /\ Succeeded(r, "GenerateVMFiles"))
             => \E i \in 1..Len(status[r].CreatedResources) :
                   status[r].CreatedResources[i]
                       \notin {VMEntry(r), WorkloadEntryEntry(r), ServiceEntryEntry(r)}
        /\ Succeeded(r, "CreateWorkloadEntry")
             => InSeq(WorkloadEntryEntry(r), status[r].CreatedResources)
        /\ Succeeded(r, "CreateServiceEntry")
             => InSeq(ServiceEntryEntry(r), status[r].CreatedResources)

\* C22: every step of a run leaves the manifest it found as a prefix of the
\* manifest it leaves, and the deletes the cleanup step issues name the
\* manifest entries in reverse order
C22_ManifestAppendOnly ==
    [][\A r \in Runs :
          /\ IsPrefix(status[r].CreatedResources, status'[r].CreatedResources)
          /\ (pc[r] = "cleanup" /\ pc'[r] # "cleanup")
                => Deleted(r)' = Reverse(status[r].CreatedResources)]_vars

C22_Witness ==
    \E r \in Runs :
        /\ Returned(r)
        /\ Issued(r, "DeleteVM")
        /\ Len(status[r].CompletedTasks) = 3
        /\ status[r].CreatedResources = <<VMEntry(r)>>

C25_TaskDeadline ==
    \A r \in Runs : \A i \in 1..Len(taskLog[r]) :
        LET task == req[r].tasks[i]
            taskTimeout == IF task.timeoutSeconds > 0
                           THEN task.timeoutSeconds \div SecondsPerUnit
                           ELSE 5 * UnitsPerMinute
            overall == IF req[r].timeoutMinutes > 0
                       THEN req[r].timeoutMinutes * UnitsPerMinute
                       ELSE 30 * UnitsPerMinute
        IN taskLog[r][i].ctxDeadline - taskLog[r][i].start
             = Min(taskTimeout, overall - taskLog[r][i].start)

C25_Witness ==
    \E r \in Runs : \E i \in 1..Len(taskLog[r]) :
        /\ req[r].tasks[i].timeoutSeconds = 60
        /\ req[r].timeoutMinutes = 1
        /\ taskLog[r][i].start = 1
        /\ taskLog[r][i].ctxDeadline = 2

\* C26: when a run is about to clean up, its manifest is the instance alone
C26_CleanupManifestIsInstance ==
    \A r \in Runs :
        (pc[r] = "cleanup" \/ Issued(r, "DeleteVM"))
            => status[r].CreatedResources = <<VMEntry(r)>>

C26_Witness ==
    \E r \in Runs :
        /\ pc[r] = "cleanup"
        /\ status[r].CurrentTask = "generating_mesh_files"
        /\ req[r].mesh.cwe /\ req[r].mesh.cse

\* C27: at every stage boundary a manifest entry is present exactly when the
\* completed-list entry of the step that made it is
C27_ManifestMatchesCompleted ==
    \A r \in Runs :
        /\ InSeq(VMEntry(r), status[r].CreatedResources)
             <=> InSeq("vm_created", status[r].CompletedTasks)
        /\ InSeq(WorkloadEntryEntry(r), status[r].CreatedResources)
             <=> InSeq("workload_entry_created", status[r].CompletedTasks)
        /\ InSeq(ServiceEntryEntry(r), status[r].CreatedResources)
             <=> InSeq("service_entry_created", status[r].CompletedTasks)

C27_Witness ==
    \E r \in Runs :
        /\ pc[r] \in {"run_task", "final_validation"}
        /\ Failed(r, "CreateWorkloadEntry")
        /\ InSeq(ServiceEntryEntry(r), status[r].CreatedResources)
        /\ InSeq("service_entry_created", status[r].CompletedTasks)

\* C28: DeployVM returns an error exactly with a failed status and nil exactly
\* with a completed one, never an initializing status, and the Error field is
\* set exactly in a failed status
C28_ErrorMatchesStatus ==
    \A r \in Runs :
        /\ Returned(r)
             => /\ status[r].Status \in {"failed", "completed"}
                /\ ret[r] # Nil <=> status[r].Status = "failed"
                /\ ret[r] = Nil <=> status[r].Status = "completed"
        /\ status[r].Error # "" <=> status[r].Status = "failed"

C28_Witness ==
    \E r \in Runs :
        /\ pc[r] = "done"
        /\ status[r].Status = "failed"
        /\ status[r].Error = "VM failed to become ready"
        /\ ret[r] = "timeout waiting for VM to be ready"
        /\ resp[r].code = 500

\* C29: a returned status has an empty CurrentTask exactly when it is
\* completed; a failed one names the stage that failed and its completed list
\* is that of the stages before
C29_CurrentTaskNamesFailure ==
    \A r \in Runs :
        Returned(r)
            => /\ status[r].CurrentTask = "" <=> status[r].Status = "completed"
               /\ status[r].Status = "failed"
                    => status[r].CompletedTasks = CompletedBefore(status[r].CurrentTask)

C29_Witness ==
    \E r \in Runs :
        /\ Returned(r)
        /\ status[r].Status = "failed"
        /\ status[r].CurrentTask = "waiting_for_vm_ready"
        /\ ~req[r].autoCleanup

\* C30: a run without auto-cleanup issues no delete; what it created is still
\* there and still in its manifest when it has failed
C30_NoCleanupWithoutFlag ==
    \A r \in Runs :
        ~req[r].autoCleanup
            => /\ Deleted(r) = <<>>
               /\ pc[r] # "cleanup"
               /\ Succeeded(r, "CreateVM")
                    => /\ req[r].name \in cloud.vm
                       /\ InSeq(VMEntry(r), status[r].CreatedResources)

C30_Witness ==
    \E r \in Runs :
        /\ FailedRun(r)
        /\ ~req[r].autoCleanup
        /\ Failed(r, "GenerateVMFiles")
        /\ req[r].name \in cloud.vm
        /\ status[r].CreatedResources = <<VMEntry(r)>>

\* C31: a validate task that ran has not failed with "VM is not running"
\* (every run that reaches its tasks has seen the instance running at a
\* readiness poll, and the model never stops an instance afterwards, so a
\* check of the instance's current state at task time would always pass)
C31_ValidateUsesCurrentState ==
    \A r \in Runs : \A i \in 1..Len(taskLog[r]) :
        taskLog[r][i].type = "validate" => taskLog[r][i].err # "VM is not running"

\* C32: under fair scheduling, with every collaborator call returning, a
\* deployment run that has started eventually returns with Status completed
\* or failed
C32_RunTerminates ==
    \A r \in Runs :
        (pc[r] = "deploy") ~>
            (Returned(r) /\ status[r].Status \in {"completed", "failed"})

\* a run under the default deployment timeout whose readiness wait ran to the
\* end of its own ten minutes and that then returned
C32_Witness ==
    \E r \in Runs :
        /\ Returned(r)
        /\ req[r].timeoutMinutes = 0
        /\ status[r].Status = "failed"
        /\ status[r].CurrentTask = "waiting_for_vm_ready"
        /\ now[r] >= ReadyTimeout

\* C33: a task whose type is none of wait, validate, script fails with
\* "unknown task type", its id is not in CompletedTasks, every task of the
\* list is still run, and the run that reached its tasks ends completed
C33_UnknownTaskType ==
    \A r \in Runs :
        /\ \A i \in 1..Len(taskLog[r]) :
              taskLog[r][i].type \notin {"wait", "validate", "script"} =>
                  /\ taskLog[r][i].err = "unknown task type"
                  /\ ~InSeq(TaskId(taskLog[r][i].name), status[r].CompletedTasks)
        /\ (Returned(r) /\ Len(taskLog[r]) > 0) =>
              /\ Len(taskLog[r]) = Len(req[r].tasks)
              /\ status[r].Status = "completed"
              /\ ret[r] = Nil

\* a completed run whose first task had an unknown type and whose second task
\* succeeded
C33_Witness ==
    \E r \in Runs :
        /\ Returned(r)
        /\ status[r].Status = "completed"
        /\ Len(taskLog[r]) = 2
        /\ taskLog[r][1].type = "reboot"
        /\ taskLog[r][1].err = "unknown task type"
        /\ taskLog[r][2].err = Nil
        /\ InSeq(TaskId(taskLog[r][2].name), status[r].CompletedTasks)

\* C34: the HTTP deploy handler answers 202 with the status exactly when the
\* run returned no error (Status completed); for a failed run it answers 500
\* with the error text alone, so the status and its CreatedResources are not
\* in the response
C34_StatusOnlyOnSuccess ==
    \A r \in Runs :
        (pc[r] = "done" /\ BindOK(req[r])) =>
            /\ (resp[r].code = 202) <=> (status[r].Status = "completed")
            /\ (resp[r].body = "status") <=> (status[r].Status = "completed")
            /\ status[r].Status = "failed" =>
                  (resp[r].code = 500 /\ resp[r].body = "error")

\* a failed run without auto-cleanup that left resources in its manifest and
\* whose response was the error alone
C34_Witness ==
    \E r \in Runs :
        /\ pc[r] = "done"
        /\ status[r].Status = "failed"
        /\ ~req[r].autoCleanup
        /\ Len(status[r].CreatedResources) > 0
        /\ resp[r] = [code |-> 500, body |-> "error"]

====
